---- MODULE Spec2Model ----
(***************************************************************************)
(* State-machine model of src/app.py: the /fetch handler                   *)
(* (fetch_network_data), the per-network reconciler                        *)
(* (fetch_data_for_network), the endpoint prober                           *)
(* (get_healthy_rpc_endpoints / get_healthy_rest_endpoints), the           *)
(* chain-height reader (get_latest_block_height_rpc) and the two           *)
(* upgrade-plan readers.                                                   *)
(*                                                                         *)
(* Conventions.                                                            *)
(*   - Python's None is the empty tuple None; a present value x is the     *)
(*     one-element tuple Some(x).                                          *)
(*   - A text (str) is a tuple of one-character strings, so len() is Len.  *)
(*   - A remote server's answer is an input: it is drawn from a bounded    *)
(*     set when the call returns.                                          *)
(***************************************************************************)
EXTENDS Integers, Sequences, FiniteSets, TLC

\* ------------------------------------------------------------------ bounds

\* Largest block height a server reports (chain height or plan height).
MaxHeight == 2
\* Longest REST endpoint list of one network under SpecNetwork.
MaxRestEndpoints == 2
\* Longest endpoint list handed to the prober under SpecProber.
MaxProbed == 7
\* Most networks one request names, MAINNETS and TESTNETS together.
MaxNetworks == 3

\* -------------------------------------------------------- program constants

\* ThreadPoolExecutor(max_workers=10)
max_workers == 10
\* healthy_rpc_endpoints[:5]
HealthyCap == 5

SERVER_BLACKLIST ==
    { "https://stride.api.bccnodes.com:443",
      "https://api.omniflix.nodestake.top",
      "https://cosmos-lcd.quickapi.com:443" }

\* ------------------------------------------------------------ Python values

None == << >>
Some(x) == << x >>
IsNone(o) == o = << >>
Val(o) == o[1]

\* Truthiness of an optional text: None and "" are falsy.
Truthy(o) == ~IsNone(o) /\ Val(o) # << >>

Digits == { "0", "1", "2", "3", "4", "5", "6", "7", "8", "9" }

\* SEMANTIC_VERSION_PATTERN = re.compile(r'v(\d+(?:\.\d+){0,2})')
\* DigitsEnd: the index just past the greedy run \d* that starts at i.
RECURSIVE DigitsEnd(_, _)
DigitsEnd(text, i) ==
    IF i <= Len(text) /\ text[i] \in Digits THEN DigitsEnd(text, i + 1) ELSE i

\* GroupEnd: the index just past up to n greedy repetitions of \.\d+ from i.
RECURSIVE GroupEnd(_, _, _)
GroupEnd(text, i, n) ==
    IF n > 0 /\ i <= Len(text) /\ text[i] = "." /\ DigitsEnd(text, i + 1) > i + 1
    THEN GroupEnd(text, DigitsEnd(text, i + 1), n - 1)
    ELSE i

\* The pattern matches at i: a "v" followed by at least one digit.
MatchesAt(text, i) ==
    i <= Len(text) /\ text[i] = "v" /\ DigitsEnd(text, i + 1) > i + 1

\* group(1) of the match at i.
GroupAt(text, i) ==
    SubSeq(text, i + 1, GroupEnd(text, DigitsEnd(text, i + 1), 2) - 1)

\* SEMANTIC_VERSION_PATTERN.search(text), reduced to group(1): the leftmost match.
RECURSIVE SearchFrom(_, _)
SearchFrom(text, i) ==
    IF i > Len(text) THEN None
    ELSE IF MatchesAt(text, i) THEN Some(GroupAt(text, i))
    ELSE SearchFrom(text, i + 1)

search(text) == SearchFrom(text, 1)

\* A JSON field handed to int(): absent (the .get default 0 is used), null,
\* a text that is no integer literal, or a number n.
FieldMissing == [kind |-> "missing", n |-> 0]
FieldNull == [kind |-> "null", n |-> 0]
FieldText == [kind |-> "text", n |-> 0]
FieldNum(n) == [kind |-> "num", n |-> n]

\* int(d.get(key, 0)): the value, or the exception int() raises.
py_int(field) ==
    CASE field.kind = "missing" -> [exc |-> "", value |-> 0]
      [] field.kind = "num"     -> [exc |-> "", value |-> field.n]
      [] field.kind = "text"    -> [exc |-> "ValueError", value |-> 0]
      [] field.kind = "null"    -> [exc |-> "TypeError", value |-> 0]

\* ------------------------------------------------------- server responses

\* What requests.get() gives back for one call.
\*   kind "error": requests.get raised a RequestException (connection error,
\*                 or the timeout when the call has one);
\*   kind "http":  a response with a status code; json tells whether its body
\*                 parses as JSON, and json_error_is_request_exception whether
\*                 the installed requests raises its JSONDecodeError (a
\*                 RequestException) or a plain ValueError from response.json().
ConnError ==
    [kind |-> "error", status |-> 0, json |-> FALSE,
     json_error_is_request_exception |-> FALSE, body |-> None]
HttpStatus(code) ==
    [kind |-> "http", status |-> code, json |-> FALSE,
     json_error_is_request_exception |-> FALSE, body |-> None]
InvalidJson(lib) ==
    [kind |-> "http", status |-> 200, json |-> FALSE,
     json_error_is_request_exception |-> lib, body |-> None]
JsonBody(b) ==
    [kind |-> "http", status |-> 200, json |-> TRUE,
     json_error_is_request_exception |-> FALSE, body |-> Some(b)]

\* response.raise_for_status(): HTTPError for 4xx and 5xx.
raise_for_status(resp) == resp.status >= 400 /\ resp.status < 600

\* The exception that requests.get / raise_for_status / response.json() raise
\* for resp, "" when data = response.json() is reached.
RequestFailure(resp) ==
    IF resp.kind = "error" THEN "RequestException"
    ELSE IF raise_for_status(resp) THEN "RequestException"
    ELSE IF ~resp.json
         THEN (IF resp.json_error_is_request_exception
               THEN "RequestException" ELSE "ValueError")
    ELSE ""

\* ---------------------------------------------------- Chain-Height Reader

\* get_latest_block_height_rpc(rpc_url), as a function of the server's answer.
\* The body of /status is reduced to its result.sync_info.latest_block_height
\* field. Only requests.RequestException is caught.
get_latest_block_height_rpc(resp) ==
    LET failure == RequestFailure(resp) IN
    IF failure = "RequestException" THEN [exc |-> "", value |-> -1]
    ELSE IF failure # "" THEN [exc |-> failure, value |-> 0]
    ELSE py_int(Val(resp.body))

\* ----------------------------------------------------- Upgrade-Plan Reader

\* A governance proposal: content["@type"] is the software-upgrade type or
\* not, content.plan.name, content.description, content.plan.height.
Proposal(isUpgrade, name, description, height) ==
    [upgrade |-> isUpgrade, name |-> name, description |-> description,
     height |-> height]

\* Mutant: the plan name wins whenever it matches.
SelectVersionPlanNameFirst(plan_version_match, description_version_match) ==
    IF ~IsNone(plan_version_match) THEN plan_version_match
    ELSE description_version_match

\* Lines 135-142: the version of one proposal.
SelectVersion(plan_version_match, description_version_match) ==
    IF ~IsNone(plan_version_match) /\ ~IsNone(description_version_match)
    THEN (IF Len(Val(plan_version_match)) > Len(Val(description_version_match))
          THEN plan_version_match ELSE description_version_match)
    ELSE IF ~IsNone(plan_version_match) THEN plan_version_match
    ELSE IF ~IsNone(description_version_match) THEN description_version_match
    ELSE None

\* Lines 144-147 and 170-173: int(...) with "except ValueError: height = 0".
ParseHeight(field) ==
    LET r == py_int(field) IN
    IF r.exc = "ValueError" THEN [exc |-> "", value |-> 0] ELSE r

Found(version, height) == [exc |-> "", version |-> version, height |-> Some(height)]
NotFound == [exc |-> "", version |-> None, height |-> None]
Raised(e) == [exc |-> e, version |-> None, height |-> None]

\* Lines 122-151: the scan of data["proposals"], in the order returned.
RECURSIVE ScanProposals(_, _)
ScanProposals(proposals, i) ==
    IF i > Len(proposals) THEN NotFound
    ELSE IF ~proposals[i].upgrade THEN ScanProposals(proposals, i + 1)
    ELSE LET version == SelectVersion(search(proposals[i].name),
                                      search(proposals[i].description))
             height == ParseHeight(proposals[i].height)
         IN  IF height.exc # "" THEN Raised(height.exc)
             ELSE IF Truthy(version) THEN Found(version, height.value)
             ELSE ScanProposals(proposals, i + 1)

\* Mutant: the 501 case forgotten, so that raise_for_status() raises on it.
fetch_active_upgrade_proposals_without_501(resp) ==
    IF RequestFailure(resp) # "" THEN Raised(RequestFailure(resp))
    ELSE ScanProposals(Val(resp.body), 1)

\* fetch_active_upgrade_proposals(rest_url), as a function of the server's
\* answer; the body is data["proposals"]. Every exception is re-raised.
fetch_active_upgrade_proposals(resp) ==
    IF resp.kind = "error" THEN Raised("RequestException")
    ELSE IF resp.status = 501 THEN NotFound
    ELSE IF RequestFailure(resp) # "" THEN Raised(RequestFailure(resp))
    ELSE ScanProposals(Val(resp.body), 1)

\* The current plan document: data["plan"] is None (absent, null or {}) or
\* a plan with a name and a height field.
Plan(name, height) == [name |-> name, height |-> height]

\* fetch_current_upgrade_plan(rest_url), as a function of the server's answer;
\* the body is data.get("plan", {}). Every exception is re-raised.
fetch_current_upgrade_plan(resp) ==
    IF RequestFailure(resp) # "" THEN Raised(RequestFailure(resp))
    ELSE LET plan == Val(resp.body) IN
         IF IsNone(plan) THEN NotFound
         ELSE LET version_match == search(Val(plan).name) IN
              IF IsNone(version_match) THEN NotFound
              ELSE LET height == ParseHeight(Val(plan).height) IN
                   IF height.exc # "" THEN Raised(height.exc)
                   ELSE Found(version_match, height.value)

\* --------------------------------------------------------- Endpoint Prober

\* is_endpoint_healthy(endpoint), as a function of the answer to GET /health:
\* status 200 is healthy, every exception is caught and is unhealthy.
is_endpoint_healthy(resp) ==
    IF resp.kind = "error" THEN FALSE ELSE resp.status = 200

\* xs[:n]
Take(xs, n) == SubSeq(xs, 1, IF Len(xs) < n THEN Len(xs) ELSE n)

\* One task of the pool: queued, running (its GET /health is in flight) or
\* done, with the answer it got and is_endpoint_healthy's verdict on it.
QueuedProbe == [state |-> "queued", response |-> None, healthy |-> FALSE]
RunningProbe == [state |-> "running", response |-> None, healthy |-> FALSE]
DoneProbe(resp) ==
    [state |-> "done", response |-> Some(resp), healthy |-> is_endpoint_healthy(resp)]

\* Line 33: executor.map yields the verdicts in input order; the endpoints
\* whose verdict is healthy are kept. probes[i] is the task of endpoints[i].
RECURSIVE HealthyOf(_, _, _)
HealthyOf(endpoints, probes, i) ==
    IF i > Len(endpoints) THEN << >>
    ELSE (IF probes[i].healthy THEN << endpoints[i] >> ELSE << >>)
         \o HealthyOf(endpoints, probes, i + 1)

\* Mutant: [-5:] for [:5].
get_healthy_endpoints_result_last_five(endpoints, probes) ==
    LET healthy == HealthyOf(endpoints, probes, 1) IN
    SubSeq(healthy, IF Len(healthy) > 5 THEN Len(healthy) - 4 ELSE 1, Len(healthy))

\* Mutant: the [:5] forgotten.
get_healthy_endpoints_result_uncut(endpoints, probes) ==
    HealthyOf(endpoints, probes, 1)

\* Lines 33-35: the healthy endpoints, cut to the first five.
get_healthy_endpoints_result(endpoints, probes) ==
    Take(HealthyOf(endpoints, probes, 1), HealthyCap)

\* ------------------------------------------------------------ environment

\* Texts a server puts in a plan name or a description.
T_v5_0 == << "v", "5", ".", "0" >>
T_v3_2 == << "v", "3", ".", "2" >>
T_none == << "u", "p" >>

Endpoint(address) == [address |-> address]

RestAddresses == { "https://rest-a", "https://stride.api.bccnodes.com:443" }

\* All tuples over S of length at most n.
SeqUpTo(S, n) == UNION { [1..k -> S] : k \in 0..n }

\* Answers to GET {endpoint}/health.
HealthResponses == { ConnError, HttpStatus(200), HttpStatus(500) }

\* Answers to GET {rpc}/status.
StatusResponses ==
    { ConnError, HttpStatus(500), InvalidJson(TRUE), InvalidJson(FALSE),
      JsonBody(FieldMissing), JsonBody(FieldNull), JsonBody(FieldText) }
    \cup { JsonBody(FieldNum(n)) : n \in 0..MaxHeight }

\* Answers to GET {rest}/cosmos/gov/v1beta1/proposals?proposal_status=2.
ActiveResponses ==
    { ConnError, HttpStatus(500), HttpStatus(501), JsonBody(<< >>),
      JsonBody(<< Proposal(TRUE, T_v5_0, T_none, FieldNull) >>) }
    \cup { JsonBody(<< Proposal(TRUE, T_v5_0, T_none, FieldNum(h)) >>) :
             h \in { 1, MaxHeight } }

\* Answers to GET {rest}/cosmos/upgrade/v1beta1/current_plan.
PlanResponses ==
    { ConnError, HttpStatus(500), JsonBody(None),
      JsonBody(Some(Plan(T_v3_2, FieldNull))) }
    \cup { JsonBody(Some(Plan(T_v3_2, FieldNum(h)))) : h \in { 1, MaxHeight } }

\* Answers to GET {base_url}/{network}/chain.json: the document is reduced
\* to its "apis" object, None when that is null.
Apis(rest, rpc) == [rest |-> rest, rpc |-> rpc]

\* The RPC lists of one network: none, one, two distinct, one listed twice.
RpcEndpointLists ==
    { << >>,
      << Endpoint("https://rpc-a") >>,
      << Endpoint("https://rpc-a"), Endpoint("https://rpc-b") >>,
      << Endpoint("https://rpc-a"), Endpoint("https://rpc-a") >> }

RegistryResponses ==
    { ConnError, HttpStatus(404), InvalidJson(FALSE), JsonBody(None) }
    \cup { JsonBody(Some(Apis(rest, rpc))) :
             rest \in { << >>, << Endpoint("https://rest-a") >> },
             rpc \in { << >>, << Endpoint("https://rpc-a") >> } }

\* Any answer of the sets above.
AnyServers ==
    [health |-> HealthResponses, status |-> StatusResponses,
     active_upgrade_proposals |-> ActiveResponses,
     current_upgrade_plan |-> PlanResponses,
     registry |-> RegistryResponses]

\* The servers of a whole request: one answer of each outcome class.
FewServers ==
    [health |-> { HttpStatus(200) },
     status |-> { ConnError, JsonBody(FieldText), JsonBody(FieldNum(1)) },
     active_upgrade_proposals |->
         { ConnError,
           JsonBody(<< Proposal(TRUE, T_v5_0, T_none, FieldNum(MaxHeight)) >>) },
     current_upgrade_plan |-> { JsonBody(None) },
     registry |-> RegistryResponses]

\* ------------------------------------------------------------------ state

VARIABLES
    pc,                     \* where the request handler's thread is
    \* fetch_network_data
    request_data,           \* the JSON payload
    group,                  \* 1 = mainnet, 2 = testnet
    endpoints_map,          \* fetch_all_endpoints' map of the current group
    net_i,                  \* position in the group's network list
    results,                \* results
    processed,              \* history: the networks handled so far, and
                            \* whether fetch_data_for_network raised
    http_response,          \* the handler's HTTP response, None until sent
    \* fetch_data_for_network
    network, network_type, rest_endpoints, rpc_endpoints,
    probes,                 \* the prober's pool: one task per endpoint
    healthy_rpc_endpoints, healthy_rest_endpoints,
    latest_block_height, rpc_server_used,
    rpc_i,                  \* position of "for rpc_endpoint in ..."
    index,                  \* enumerate() index of the REST loop, from 1
    active_upgrade,         \* (active_upgrade_version, active_upgrade_height)
    upgrade_block_height, upgrade_version, source,
    output_data,            \* the returned dict, None before the return
    exception,              \* the exception fetch_data_for_network raised
    \* the outbound request of the handler's thread
    call,                   \* the requests.get() the thread is blocked in
    response,               \* what requests.get() gave back, until it is read
    \* history
    rpc_log,                \* the status queries of this network, answered
    rest_log,               \* the upgrade queries of this network, answered
    \* environment
    servers                 \* the answers the remote servers of this run can
                            \* give, per kind of call

batchVars == << request_data, group, endpoints_map, net_i, results,
                processed, http_response >>
inputVars == << network, network_type, rest_endpoints, rpc_endpoints >>
proberVars == << probes, healthy_rpc_endpoints, healthy_rest_endpoints >>
rpcVars == << latest_block_height, rpc_server_used, rpc_i, rpc_log >>
restVars == << index, active_upgrade, upgrade_block_height, upgrade_version,
               source, rest_log >>
callVars == << call, response >>
vars == << pc, batchVars, inputVars, proberVars, rpcVars, restVars,
           output_data, exception, callVars, servers >>

NoCall == [kind |-> "none", address |-> "", timeout |-> None]
\* requests.get(url, timeout=t); timeout None for requests.get(url).
Get(kind, address, timeout) ==
    [kind |-> kind, address |-> address, timeout |-> timeout]

Queued(endpoints) == [i \in 1..Len(endpoints) |-> QueuedProbe]

\* Entry of fetch_data_for_network (lines 183-194): the locals, and the RPC
\* list handed to the prober's pool.
EnterNetwork(n, type, endpoints) ==
    /\ network' = n
    /\ network_type' = type
    /\ rest_endpoints' = endpoints.rest
    /\ rpc_endpoints' = endpoints.rpc
    /\ probes' = Queued(endpoints.rpc)
    /\ healthy_rpc_endpoints' = << >>
    /\ healthy_rest_endpoints' = << >>
    /\ latest_block_height' = -1
    /\ rpc_server_used' = ""
    /\ rpc_i' = 1
    /\ rpc_log' = << >>
    /\ index' = 1
    /\ active_upgrade' = NotFound
    /\ upgrade_block_height' = None
    /\ upgrade_version' = << >>
    /\ source' = ""
    /\ rest_log' = << >>
    /\ output_data' = None
    /\ exception' = ""
    /\ pc' = "probe_rpc"
    /\ UNCHANGED << callVars, servers >>

\* ------------------------------------------------------ outbound requests

\* The thread is blocked in requests.get(); pc names the call it waits for.
Blocked == call.kind # "none"

AfterAnswer ==
    CASE pc = "status_wait"   -> "status_got"
      [] pc = "active_wait"   -> "active_got"
      [] pc = "plan_wait"     -> "plan_got"
      [] pc = "registry_wait" -> "registry_got"

\* The remote server answers (or the connection fails): requests.get() ends.
\* Nothing obliges a server to answer.
Answer ==
    /\ Blocked
    /\ \E resp \in servers[call.kind] : response' = Some(resp)
    /\ call' = NoCall
    /\ pc' = AfterAnswer
    /\ UNCHANGED << batchVars, inputVars, proberVars, rpcVars, restVars,
                    output_data, exception, servers >>

\* The timeout of a requests.get(url, timeout=t) runs out: requests.Timeout,
\* a RequestException. A call made without timeout has none.
Timeout ==
    /\ Blocked
    /\ ~IsNone(call.timeout)
    /\ response' = Some(ConnError)
    /\ call' = NoCall
    /\ pc' = AfterAnswer
    /\ UNCHANGED << batchVars, inputVars, proberVars, rpcVars, restVars,
                    output_data, exception, servers >>

\* -------------------------------------------------------------- the prober

ProbedList == IF pc = "probe_rpc" THEN rpc_endpoints ELSE rest_endpoints

Running == { i \in DOMAIN probes : probes[i].state = "running" }

\* A pool worker takes the next queued task: tasks start in input order and
\* at most max_workers run at a time. The task sends GET /health, timeout 3.
ProbeStart ==
    /\ pc \in { "probe_rpc", "probe_rest" }
    /\ Cardinality(Running) < max_workers
    /\ \E i \in DOMAIN probes :
         /\ probes[i].state = "queued"
         /\ \A j \in 1..(i - 1) : probes[j].state # "queued"
         /\ probes' = [probes EXCEPT ![i] = RunningProbe]
    /\ UNCHANGED << pc, batchVars, inputVars, healthy_rpc_endpoints,
                    healthy_rest_endpoints, rpcVars, restVars, output_data,
                    exception, callVars, servers >>

\* A running probe gets its answer, or its timeout, and yields its verdict.
ProbeFinish ==
    /\ pc \in { "probe_rpc", "probe_rest" }
    /\ \E i \in Running, resp \in servers.health :
         probes' = [probes EXCEPT ![i] = DoneProbe(resp)]
    /\ UNCHANGED << pc, batchVars, inputVars, healthy_rpc_endpoints,
                    healthy_rest_endpoints, rpcVars, restVars, output_data,
                    exception, callVars, servers >>

AllProbed == \A i \in DOMAIN probes : probes[i].state = "done"

\* The pool is drained (end of the with block) and the list is built:
\* get_healthy_rpc_endpoints at line 193, get_healthy_rest_endpoints at 194.
ProberReturn ==
    /\ pc \in { "probe_rpc", "probe_rest" }
    /\ AllProbed
    /\ IF pc = "probe_rpc"
       THEN /\ healthy_rpc_endpoints' =
                  get_healthy_endpoints_result(rpc_endpoints, probes)
            /\ probes' = Queued(rest_endpoints)
            /\ pc' = "probe_rest"
            /\ UNCHANGED healthy_rest_endpoints
       ELSE /\ healthy_rest_endpoints' =
                  get_healthy_endpoints_result(rest_endpoints, probes)
            /\ probes' = << >>
            /\ pc' = "shuffle"
            /\ UNCHANGED healthy_rpc_endpoints
    /\ UNCHANGED << batchVars, inputVars, rpcVars, restVars, output_data,
                    exception, callVars, servers >>

\* ---------------------------------------------------------- the reconciler

\* random.shuffle: every reordering of xs.
Shuffles(xs) ==
    { [i \in 1..Len(xs) |-> xs[p[i]]] :
        p \in { q \in [1..Len(xs) -> 1..Len(xs)] :
                  \A i, j \in 1..Len(xs) : q[i] = q[j] => i = j } }

\* Lines 197-198.
Shuffle ==
    /\ pc = "shuffle"
    /\ healthy_rpc_endpoints' \in Shuffles(healthy_rpc_endpoints)
    /\ healthy_rest_endpoints' \in Shuffles(healthy_rest_endpoints)
    /\ pc' = "rpc_loop"
    /\ UNCHANGED << batchVars, inputVars, probes, rpcVars, restVars,
                    output_data, exception, callVars, servers >>

\* Lines 201-202: the next healthy RPC endpoint is asked for its status
\* (timeout 3), or the loop is over.
RpcLoop ==
    /\ pc = "rpc_loop"
    /\ IF rpc_i <= Len(healthy_rpc_endpoints)
       THEN /\ call' = Get("status", healthy_rpc_endpoints[rpc_i].address, Some(3))
            /\ pc' = "status_wait"
       ELSE /\ pc' = "shuffle_rest"
            /\ UNCHANGED call
    /\ UNCHANGED << batchVars, inputVars, proberVars, rpcVars, restVars,
                    output_data, exception, response, servers >>

\* Mutant: ">= 0" for "> 0".
HeightNotNegative(height) == height >= 0

\* Line 203.
HeightFound(height) == height > 0

StatusEntry(address, resp, r) ==
    [address |-> address, exc |-> r.exc, value |-> r.value]

\* Lines 202-205: get_latest_block_height_rpc returns or raises. An exception
\* it lets through leaves fetch_data_for_network.
StatusReturn ==
    /\ pc = "status_got"
    /\ LET rpc_endpoint == healthy_rpc_endpoints[rpc_i]
           r == get_latest_block_height_rpc(Val(response))
       IN  /\ rpc_log' = Append(rpc_log,
                  StatusEntry(rpc_endpoint.address, Val(response), r))
           /\ IF r.exc # ""
              THEN /\ exception' = r.exc
                   /\ pc' = "raised"
                   /\ UNCHANGED << latest_block_height, rpc_server_used, rpc_i >>
              ELSE /\ latest_block_height' = r.value
                   /\ IF HeightFound(r.value)
                      THEN /\ rpc_server_used' = rpc_endpoint.address
                           /\ pc' = "shuffle_rest"
                           /\ UNCHANGED rpc_i
                      ELSE /\ rpc_i' = rpc_i + 1
                           /\ pc' = "rpc_loop"
                           /\ UNCHANGED rpc_server_used
                   /\ UNCHANGED exception
    /\ response' = None
    /\ UNCHANGED << batchVars, inputVars, proberVars, restVars, output_data,
                    call, servers >>

\* Lines 209-212.
ShuffleRest ==
    /\ pc = "shuffle_rest"
    /\ healthy_rest_endpoints' \in Shuffles(healthy_rest_endpoints)
    /\ pc' = "rest_loop"
    /\ UNCHANGED << batchVars, inputVars, probes, healthy_rpc_endpoints,
                    rpcVars, restVars, output_data, exception, callVars,
                    servers >>

\* Mutant: the blacklist test forgotten.
BlacklistIgnored(address) == FALSE

\* Line 217.
Blacklisted(address) == address \in SERVER_BLACKLIST

\* Line 215.
current_endpoint == healthy_rest_endpoints[index].address

\* Lines 214-220: the next REST candidate; a blacklisted address is skipped,
\* any other is asked for its active proposals (no timeout).
RestLoop ==
    /\ pc = "rest_loop"
    /\ IF index > Len(healthy_rest_endpoints)
       THEN /\ pc' = "output"
            /\ UNCHANGED << index, call >>
       ELSE IF Blacklisted(current_endpoint)
       THEN /\ index' = index + 1
            /\ UNCHANGED << pc, call >>
       ELSE /\ call' = Get("active_upgrade_proposals", current_endpoint, None)
            /\ pc' = "active_wait"
            /\ UNCHANGED index
    /\ UNCHANGED << batchVars, inputVars, proberVars, rpcVars, active_upgrade,
                    upgrade_block_height, upgrade_version, source, rest_log,
                    output_data, exception, response, servers >>

\* Mutant: the walk ends at the first failure.
QueryFailedStops ==
    /\ pc' = "output"
    /\ UNCHANGED index

\* Mutant: the failed candidate is tried again.
QueryFailedRetries ==
    /\ pc' = "rest_loop"
    /\ UNCHANGED index

\* Lines 222-228: the except branch. index counts from 1 here, so the code's
\* "index + 1 < len" is "index < Len".
QueryFailed ==
    IF index < Len(healthy_rest_endpoints)
    THEN /\ index' = index + 1
         /\ pc' = "rest_loop"
    ELSE /\ pc' = "output"
         /\ UNCHANGED index

QueryEntry(query, resp, r) ==
    [query |-> query, address |-> current_endpoint, index |-> index,
     not_implemented |-> (resp.kind = "http" /\ resp.status = 501),
     failed |-> (r.exc # ""), version |-> r.version, height |-> r.height]

\* Lines 220-221: fetch_active_upgrade_proposals returns or raises; when it
\* returns, the current plan is asked for (no timeout).
ActiveReturn ==
    /\ pc = "active_got"
    /\ LET r == fetch_active_upgrade_proposals(Val(response)) IN
       /\ rest_log' = Append(rest_log,
              QueryEntry("active_upgrade_proposals", Val(response), r))
       /\ IF r.exc # ""
          THEN /\ QueryFailed
               /\ UNCHANGED << active_upgrade, call >>
          ELSE /\ active_upgrade' = r
               /\ call' = Get("current_upgrade_plan", current_endpoint, None)
               /\ pc' = "plan_wait"
               /\ UNCHANGED index
    /\ response' = None
    /\ UNCHANGED << batchVars, inputVars, proberVars, rpcVars,
                    upgrade_block_height, upgrade_version, source,
                    output_data, exception, servers >>

\* Mutant: the height is not compared.
AcceptsAnyHeight(version, height, latest) ==
    Truthy(version) /\ ~IsNone(height)

\* Mutant: ">=" for ">".
AcceptsNotBehind(version, height, latest) ==
    Truthy(version) /\ ~IsNone(height) /\ Val(height) >= latest

\* Lines 230 and 236: the acceptance test of one source's result.
Accepts(version, height, latest) ==
    Truthy(version) /\ ~IsNone(height) /\ Val(height) > latest

\* Mutant: the height always taken from the active-proposal result.
SelectedWithActiveHeight(src, r) ==
    [source |-> src, version |-> Val(r.version), height |-> active_upgrade.height]

Selected(src, r) == [source |-> src, version |-> Val(r.version), height |-> r.height]
NothingSelected == [source |-> "", version |-> << >>, height |-> None]

\* Mutant: the two tests in the other order.
SelectPlanFirst(active, current, latest) ==
    IF Truthy(current.version) /\ ~IsNone(current.height)
       /\ Val(current.height) > latest
    THEN [source |-> "current_upgrade_plan", version |-> Val(current.version),
          height |-> current.height]
    ELSE IF Truthy(active.version) /\ ~IsNone(active.height)
            /\ Val(active.height) > latest
    THEN [source |-> "active_upgrade_proposals", version |-> Val(active.version),
          height |-> active.height]
    ELSE [source |-> "", version |-> << >>, height |-> None]

\* Lines 230-240: the active proposal is tried first, then the current plan.
Select(active, current, latest) ==
    IF Accepts(active.version, active.height, latest)
    THEN Selected("active_upgrade_proposals", active)
    ELSE IF Accepts(current.version, current.height, latest)
    THEN Selected("current_upgrade_plan", current)
    ELSE NothingSelected

\* Lines 221-240: fetch_current_upgrade_plan returns or raises, and the
\* candidate is judged.
PlanReturn ==
    /\ pc = "plan_got"
    /\ LET current_upgrade == fetch_current_upgrade_plan(Val(response))
           choice == Select(active_upgrade, current_upgrade, latest_block_height)
       IN
       /\ rest_log' = Append(rest_log,
              QueryEntry("current_upgrade_plan", Val(response), current_upgrade))
       /\ IF current_upgrade.exc # ""
          THEN /\ QueryFailed
               /\ UNCHANGED << upgrade_block_height, upgrade_version, source >>
          ELSE IF choice.source # ""
          THEN /\ upgrade_block_height' = choice.height
               /\ upgrade_version' = choice.version
               /\ source' = choice.source
               /\ pc' = "output"
               /\ UNCHANGED index
          ELSE /\ index' = index + 1
               /\ pc' = "rest_loop"
               /\ UNCHANGED << upgrade_block_height, upgrade_version, source >>
    /\ response' = None
    /\ UNCHANGED << batchVars, inputVars, proberVars, rpcVars, active_upgrade,
                    output_data, exception, call, servers >>

\* Mutant: "is not None" for '!= ""'.
upgrade_found_is_not_none(version) == TRUE

\* Line 245.
upgrade_found_of(version) == version # << >>

\* Mutant: source assigned when a query is answered, not on acceptance.
BuildOutputSourceOfLastQuery ==
    [type |-> network_type,
     network |-> network,
     upgrade_found |-> upgrade_found_of(upgrade_version),
     latest_block_height |-> latest_block_height,
     upgrade_block_height |-> upgrade_block_height,
     version |-> upgrade_version,
     rpc_server |-> rpc_server_used,
     source |-> IF rest_log = << >> THEN "" ELSE rest_log[Len(rest_log)].query]

\* Lines 242-251.
BuildOutput ==
    [type |-> network_type,
     network |-> network,
     upgrade_found |-> upgrade_found_of(upgrade_version),
     latest_block_height |-> latest_block_height,
     upgrade_block_height |-> upgrade_block_height,
     version |-> upgrade_version,
     rpc_server |-> rpc_server_used,
     source |-> source]

\* Line 252.
Output ==
    /\ pc = "output"
    /\ output_data' = Some(BuildOutput)
    /\ pc' = "returned"
    /\ UNCHANGED << batchVars, inputVars, proberVars, rpcVars, restVars,
                    exception, callVars, servers >>

\* The prober alone.
NextProber ==
    \/ ProbeStart
    \/ ProbeFinish
    \/ ProberReturn

\* fetch_data_for_network.
NextNetwork ==
    \/ ProbeStart
    \/ ProbeFinish
    \/ ProberReturn
    \/ Shuffle
    \/ RpcLoop
    \/ StatusReturn
    \/ ShuffleRest
    \/ RestLoop
    \/ ActiveReturn
    \/ PlanReturn
    \/ Output
    \/ Answer
    \/ Timeout

\* ------------------------------------------------------ fetch_network_data

Networks == { "cosmoshub", "osmosis" }

\* request_data.get(key, [])
GetList(data, key) == IF IsNone(data[key]) THEN << >> ELSE Val(data[key])

\* "if not request_data": the payload is empty (no key at all).
Falsy(data) == IsNone(data.MAINNETS) /\ IsNone(data.TESTNETS)

\* Lines 262-263: the two groups, in order.
GroupType(g) == IF g = 1 THEN "mainnet" ELSE "testnet"
GroupKey(g) == IF g = 1 THEN "MAINNETS" ELSE "TESTNETS"
GroupNetworks == GetList(request_data, GroupKey(group))

EmptyMap == [n \in {} |-> None]
\* endpoints_map[network] = value
MapSet(m, k, v) == [n \in DOMAIN m \cup { k } |-> IF n = k THEN v ELSE m[n]]
\* endpoints_map.get(network, {}) followed by .get("rest", []) / .get("rpc", [])
MapGet(m, k) == IF k \in DOMAIN m THEN m[k] ELSE Apis(<< >>, << >>)

\* fetch_endpoints(network, base_url), as a function of the registry's answer:
\* only requests.RequestException is caught.
fetch_endpoints(resp) ==
    LET failure == RequestFailure(resp) IN
    IF failure = "RequestException" THEN [exc |-> "", apis |-> Apis(<< >>, << >>)]
    ELSE IF failure # "" THEN [exc |-> failure, apis |-> Apis(<< >>, << >>)]
    ELSE IF IsNone(Val(resp.body))
         THEN [exc |-> "AttributeError", apis |-> Apis(<< >>, << >>)]
    ELSE [exc |-> "", apis |-> Val(Val(resp.body))]

\* sorted(results, key=lambda x: x['upgrade_found'], reverse=True): a stable
\* sort, descending by key; True orders above False.
SortKey(x) == IF x.upgrade_found THEN 1 ELSE 0

\* Mutant: x placed before the elements of its own key.
RECURSIVE InsertDescBeforeEqual(_, _)
InsertDescBeforeEqual(sorted, x) ==
    IF sorted = << >> THEN << x >>
    ELSE IF SortKey(Head(sorted)) > SortKey(x)
    THEN << Head(sorted) >> \o InsertDescBeforeEqual(Tail(sorted), x)
    ELSE << x >> \o sorted

\* x placed after every element whose key is not below its own.
RECURSIVE InsertDesc(_, _)
InsertDesc(sorted, x) ==
    IF sorted = << >> THEN << x >>
    ELSE IF SortKey(Head(sorted)) >= SortKey(x)
    THEN << Head(sorted) >> \o InsertDesc(Tail(sorted), x)
    ELSE << x >> \o sorted

RECURSIVE SortedDesc(_)
SortedDesc(xs) ==
    IF xs = << >> THEN << >>
    ELSE InsertDesc(SortedDesc(SubSeq(xs, 1, Len(xs) - 1)), xs[Len(xs)])

\* jsonify(body), status
HttpResponse(status, body) == [status |-> status, body |-> body]

\* Lines 257-261: the payload is read; an empty one is answered 400.
Receive ==
    /\ pc = "receive"
    /\ IF Falsy(request_data)
       THEN /\ http_response' = Some(HttpResponse(400, << >>))
            /\ pc' = "responded"
       ELSE /\ pc' = "fetch_all"
            /\ UNCHANGED http_response
    /\ UNCHANGED << request_data, group, endpoints_map, net_i, results, processed,
                    inputVars, proberVars, rpcVars, restVars, output_data,
                    exception, callVars, servers >>

\* Lines 90-91 and 101: fetch_all_endpoints asks the registry for the next
\* network of the group (no timeout), or is done and the group's networks are
\* processed.
FetchAll ==
    /\ pc = "fetch_all"
    /\ IF net_i <= Len(GroupNetworks)
       THEN /\ call' = Get("registry", GroupNetworks[net_i], None)
            /\ pc' = "registry_wait"
            /\ UNCHANGED net_i
       ELSE /\ net_i' = 1
            /\ pc' = "networks"
            /\ UNCHANGED call
    /\ UNCHANGED << request_data, group, endpoints_map, results, processed,
                    http_response,
                    inputVars, proberVars, rpcVars, restVars, output_data,
                    exception, response, servers >>

\* Lines 91-95 and 277-278: fetch_endpoints returns or raises. An exception
\* it lets through is outside the per-network try: the handler answers 500.
RegistryReturn ==
    /\ pc = "registry_got"
    /\ LET r == fetch_endpoints(Val(response)) IN
       IF r.exc # ""
       THEN /\ http_response' = Some(HttpResponse(500, << >>))
            /\ pc' = "responded"
            /\ exception' = r.exc
            /\ UNCHANGED << endpoints_map, net_i >>
       ELSE /\ endpoints_map' = MapSet(endpoints_map, GroupNetworks[net_i], r.apis)
            /\ net_i' = net_i + 1
            /\ pc' = "fetch_all"
            /\ UNCHANGED << http_response, exception >>
    /\ response' = None
    /\ UNCHANGED << request_data, group, results, processed, inputVars, proberVars,
                    rpcVars, restVars, output_data, call, servers >>

\* Lines 265-267: the next network of the group enters
\* fetch_data_for_network.
NextNetworkOfGroup ==
    /\ pc = "networks"
    /\ net_i <= Len(GroupNetworks)
    /\ EnterNetwork(GroupNetworks[net_i], GroupType(group),
                    MapGet(endpoints_map, GroupNetworks[net_i]))
    /\ UNCHANGED batchVars

\* Lines 262-264: the group is done; the testnet group follows the mainnet one.
NextGroup ==
    /\ pc = "networks"
    /\ net_i > Len(GroupNetworks)
    /\ group = 1
    /\ group' = 2
    /\ endpoints_map' = EmptyMap
    /\ net_i' = 1
    /\ pc' = "fetch_all"
    /\ UNCHANGED << request_data, results, processed, http_response, inputVars,
                    proberVars, rpcVars, restVars, output_data, exception,
                    callVars, servers >>

Handled(raised) == [type |-> network_type, network |-> network, raised |-> raised]

\* Line 268: the network's record is collected.
Collect ==
    /\ pc = "returned"
    /\ results' = Append(results, Val(output_data))
    /\ processed' = Append(processed, Handled(FALSE))
    /\ net_i' = net_i + 1
    /\ pc' = "networks"
    /\ UNCHANGED << request_data, group, endpoints_map, http_response,
                    inputVars, proberVars, rpcVars, restVars, output_data,
                    exception, callVars, servers >>

\* Lines 269-270: the network's exception is logged and dropped.
LogError ==
    /\ pc = "raised"
    /\ processed' = Append(processed, Handled(TRUE))
    /\ net_i' = net_i + 1
    /\ pc' = "networks"
    /\ UNCHANGED << request_data, group, endpoints_map, results,
                    http_response,
                    inputVars, proberVars, rpcVars, restVars, output_data,
                    exception, callVars, servers >>

\* Lines 272-275: both groups are done; the sorted list is the response.
Respond ==
    /\ pc = "networks"
    /\ net_i > Len(GroupNetworks)
    /\ group = 2
    /\ http_response' = Some(HttpResponse(200, SortedDesc(results)))
    /\ pc' = "responded"
    /\ UNCHANGED << request_data, group, endpoints_map, net_i, results, processed,
                    inputVars, proberVars, rpcVars, restVars, output_data,
                    exception, callVars, servers >>

\* The /fetch handler.
Next ==
    \/ Receive
    \/ FetchAll
    \/ RegistryReturn
    \/ NextNetworkOfGroup
    \/ NextGroup
    \/ Collect
    \/ LogError
    \/ Respond
    \/ NextNetwork

\* ---------------------------------------------------------- specifications

\* The locals of fetch_data_for_network before its first line.
Idle ==
    /\ probes = << >>
    /\ healthy_rpc_endpoints = << >>
    /\ healthy_rest_endpoints = << >>
    /\ latest_block_height = -1
    /\ rpc_server_used = ""
    /\ rpc_i = 1
    /\ rpc_log = << >>
    /\ index = 1
    /\ active_upgrade = NotFound
    /\ upgrade_block_height = None
    /\ upgrade_version = << >>
    /\ source = ""
    /\ rest_log = << >>
    /\ output_data = None
    /\ exception = ""
    /\ call = NoCall
    /\ response = None

\* The payloads: each key absent or a list of networks, MaxNetworks networks
\* at most in all.
Payloads ==
    { d \in [MAINNETS : { None } \cup { Some(l) : l \in SeqUpTo(Networks, MaxNetworks) },
             TESTNETS : { None } \cup { Some(l) : l \in SeqUpTo(Networks, MaxNetworks) }] :
        Len(GetList(d, "MAINNETS")) + Len(GetList(d, "TESTNETS")) <= MaxNetworks }

\* One POST /fetch arrives.
Init ==
    /\ request_data \in Payloads
    /\ group = 1
    /\ endpoints_map = EmptyMap
    /\ net_i = 1
    /\ results = << >>
    /\ processed = << >>
    /\ http_response = None
    /\ network = ""
    /\ network_type = ""
    /\ rpc_endpoints = << >>
    /\ rest_endpoints = << >>
    /\ Idle
    /\ servers = FewServers
    /\ pc = "receive"

Spec == Init /\ [][Next]_vars

\* No request around the network: the batch variables stay as they are.
NoRequest ==
    /\ request_data = [MAINNETS |-> None, TESTNETS |-> None]
    /\ group = 1
    /\ endpoints_map = EmptyMap
    /\ net_i = 1
    /\ results = << >>
    /\ processed = << >>
    /\ http_response = None

\* One network handed to fetch_data_for_network with its endpoint lists.
InitNetwork ==
    /\ NoRequest
    /\ network = "cosmoshub"
    /\ network_type = "mainnet"
    /\ rpc_endpoints \in RpcEndpointLists
    /\ rest_endpoints \in SeqUpTo({ Endpoint(a) : a \in RestAddresses }, MaxRestEndpoints)
    /\ Idle
    /\ servers = AnyServers
    /\ pc = "enter"

\* Lines 183-194, for the network of InitNetwork.
Enter ==
    /\ pc = "enter"
    /\ EnterNetwork(network, network_type, Apis(rest_endpoints, rpc_endpoints))
    /\ UNCHANGED batchVars

SpecNetwork == InitNetwork /\ [][Enter \/ NextNetwork]_vars

\* The same, with the scheduling the code has: the handler's thread and the
\* pool's workers keep running, and a request made with a timeout ends when
\* the timeout runs out at the latest. A request made without timeout ends
\* only when the server answers, which nothing guarantees.
FairSpecNetwork ==
    /\ SpecNetwork
    /\ WF_vars(Enter)
    /\ WF_vars(ProbeStart)
    /\ WF_vars(ProbeFinish)
    /\ WF_vars(ProberReturn)
    /\ WF_vars(Shuffle)
    /\ WF_vars(RpcLoop)
    /\ WF_vars(StatusReturn)
    /\ WF_vars(ShuffleRest)
    /\ WF_vars(RestLoop)
    /\ WF_vars(ActiveReturn)
    /\ WF_vars(PlanReturn)
    /\ WF_vars(Output)
    /\ WF_vars(Timeout)

\* The endpoints handed to the prober under SpecProber.
Nodes ==
    << "https://node-01", "https://node-02", "https://node-03",
       "https://node-04", "https://node-05", "https://node-06",
       "https://node-07", "https://node-08", "https://node-09",
       "https://node-10", "https://node-11", "https://node-12",
       "https://node-13", "https://node-14", "https://node-15",
       "https://node-16" >>

NodeList(n) == [i \in 1..n |-> Endpoint(Nodes[i])]

\* One endpoint list of up to MaxProbed endpoints, handed to
\* get_healthy_rpc_endpoints or to get_healthy_rest_endpoints.
InitProber ==
    /\ NoRequest
    /\ network = "cosmoshub"
    /\ network_type = "mainnet"
    /\ \E n \in 0..MaxProbed :
         \/ rpc_endpoints = NodeList(n) /\ rest_endpoints = << >>
         \/ rpc_endpoints = << >> /\ rest_endpoints = NodeList(n)
    /\ Idle
    /\ servers = AnyServers
    /\ pc = "enter"

SpecProber == InitProber /\ [][Enter \/ NextProber]_vars

\* Texts of plan names and descriptions: "see v2", "up-v2.1.0-h" and
\* "v1.2.3.4" next to those above.
T_see_v2 == << "s", "e", "e", " ", "v", "2" >>
T_up_v2_1_0_h == << "u", "p", "-", "v", "2", ".", "1", ".", "0", "-", "h" >>
T_v1_2_3_4 == << "v", "1", ".", "2", ".", "3", ".", "4" >>
ReaderTexts == { T_none, T_v5_0, T_v3_2, T_see_v2, T_up_v2_1_0_h, T_v1_2_3_4 }

\* Height fields of a plan: absent, null, no integer literal, a number.
ReaderFields ==
    { FieldMissing, FieldNull, FieldText } \cup { FieldNum(h) : h \in 0..MaxHeight }

\* Answers to the two upgrade queries, with every text and every height field:
\* lists of one proposal, and lists whose first proposal names no version.
ReaderActiveResponses ==
    { ConnError, HttpStatus(501), InvalidJson(FALSE), JsonBody(<< >>) }
    \cup { JsonBody(<< Proposal(u, n, d, f) >>) :
             u \in BOOLEAN, n \in ReaderTexts, d \in ReaderTexts, f \in ReaderFields }
    \cup { JsonBody(<< Proposal(TRUE, T_none, T_none, f),
                       Proposal(TRUE, T_v5_0, T_none, FieldNum(1)) >>) :
             f \in ReaderFields }

ReaderPlanResponses ==
    { ConnError, JsonBody(None) }
    \cup { JsonBody(Some(Plan(n, f))) : n \in ReaderTexts, f \in ReaderFields }

ReaderServers ==
    [AnyServers EXCEPT !.active_upgrade_proposals = ReaderActiveResponses,
                       !.current_upgrade_plan = ReaderPlanResponses]

\* fetch_data_for_network at line 214, for a network without RPC endpoint and
\* with one healthy REST endpoint.
InitUpgradeReader ==
    /\ NoRequest
    /\ network = "cosmoshub"
    /\ network_type = "mainnet"
    /\ rpc_endpoints = << >>
    /\ rest_endpoints = << Endpoint("https://rest-a") >>
    /\ probes = << >>
    /\ healthy_rpc_endpoints = << >>
    /\ healthy_rest_endpoints = << Endpoint("https://rest-a") >>
    /\ latest_block_height = -1
    /\ rpc_server_used = ""
    /\ rpc_i = 1
    /\ rpc_log = << >>
    /\ index = 1
    /\ active_upgrade = NotFound
    /\ upgrade_block_height = None
    /\ upgrade_version = << >>
    /\ source = ""
    /\ rest_log = << >>
    /\ output_data = None
    /\ exception = ""
    /\ call = NoCall
    /\ response = None
    /\ servers = ReaderServers
    /\ pc = "rest_loop"

\* Lines 214-252: the two readers on that endpoint, and the return.
NextUpgradeReader ==
    \/ RestLoop
    \/ Answer
    \/ ActiveReturn
    \/ PlanReturn
    \/ Output

SpecUpgradeReader == InitUpgradeReader /\ [][NextUpgradeReader]_vars

\* ------------------------------------------------------------------ claims

\* fetch_data_for_network has returned its NetworkResult.
Returned == ~IsNone(output_data)
Result == Val(output_data)

\* The handler has answered a non-empty payload.
Answered == pc = "responded" /\ ~Falsy(request_data)
Body == Val(http_response).body

NetworkTypes == { "mainnet", "testnet" }

\* The records of (type, network) in the response, and the times the network
\* was handled without an exception.
RecordsOf(t, n) ==
    Cardinality({ i \in DOMAIN Body : Body[i].type = t /\ Body[i].network = n })
HandledOf(t, n) ==
    Cardinality({ i \in DOMAIN processed :
                    /\ processed[i].type = t
                    /\ processed[i].network = n
                    /\ ~processed[i].raised })

\* C1: an exception raised while a requested network is processed never makes
\* the request fail: the response is a 200 whose list holds one record for
\* every requested network processed without exception, and none for a
\* network whose processing raised. (Violated: an exception of
\* fetch_endpoints, raised inside fetch_all_endpoints, is outside the
\* per-network try and is answered 500.)
C1_NetworkFailureNeverAbortsBatch ==
    Answered =>
        /\ Val(http_response).status = 200
        /\ Len(processed) =
               Len(GetList(request_data, "MAINNETS"))
               + Len(GetList(request_data, "TESTNETS"))
        /\ \A t \in NetworkTypes, n \in Networks : RecordsOf(t, n) = HandledOf(t, n)

\* The part of C1 that the code has: once all registry documents are read,
\* an exception of fetch_data_for_network drops that network alone.
C1_ReconcilerFailureIsContained ==
    (Answered /\ Val(http_response).status # 500) =>
        /\ Val(http_response).status = 200
        /\ Len(processed) =
               Len(GetList(request_data, "MAINNETS"))
               + Len(GetList(request_data, "TESTNETS"))
        /\ \A t \in NetworkTypes, n \in Networks : RecordsOf(t, n) = HandledOf(t, n)

\* C2: in every NetworkResult with upgrade_found, upgrade_block_height is
\* set and strictly greater than latest_block_height.
C2_UpgradeIsAhead ==
    (Returned /\ Result.upgrade_found) =>
        /\ ~IsNone(Result.upgrade_block_height)
        /\ Val(Result.upgrade_block_height) > Result.latest_block_height

\* An upgrade is reported for a network whose height was read.
C2_Witness ==
    /\ Returned
    /\ Result.upgrade_found
    /\ Result.latest_block_height >= 1
    /\ Val(Result.upgrade_block_height) > Result.latest_block_height

\* C3: in every NetworkResult, upgrade_found is true exactly when version is
\* not the empty string.
C3_FoundIffVersion ==
    Returned => (Result.upgrade_found <=> Result.version # << >>)

\* A NetworkResult with an upgrade and its version.
C3_Witness ==
    /\ Returned
    /\ Result.upgrade_found
    /\ Result.version = << "5", ".", "0" >>

\* The prober hands its list back in this step.
ProberReturns == pc \in { "probe_rpc", "probe_rest" } /\ pc' # pc
ProberOutput ==
    IF pc = "probe_rpc" THEN healthy_rpc_endpoints' ELSE healthy_rest_endpoints'

\* The probe got no 200: an error, a timeout or another status.
NoSuccess(probe) ==
    Val(probe.response).kind = "error" \/ Val(probe.response).status # 200

\* C4: the prober returns at most 5 endpoints, each an element of its input
\* whose own probe was healthy; a probe that got an error, a timeout or a
\* status other than 200 is unhealthy, and no probe ends in an exception.
C4_ProberOutput ==
    [][ /\ \A i \in DOMAIN probes' :
             (probes'[i].state = "done" /\ NoSuccess(probes'[i]))
                 => ~probes'[i].healthy
        /\ exception' = ""
        /\ ProberReturns =>
             /\ Len(ProberOutput) <= 5
             /\ \A k \in DOMAIN ProberOutput :
                  \E i \in DOMAIN ProbedList :
                      /\ ProbedList[i] = ProberOutput[k]
                      /\ probes[i].state = "done"
                      /\ probes[i].healthy
                      /\ ~NoSuccess(probes[i]) ]_vars

\* The prober has returned five of more than five endpoints.
C4_Witness ==
    /\ pc = "probe_rest"
    /\ Len(rpc_endpoints) > 5
    /\ Len(healthy_rpc_endpoints) = 5
    /\ healthy_rpc_endpoints[1] # rpc_endpoints[1]

\* The status query failed: no answer, a non-success status, a body that is
\* no JSON, or no number in the height field.
StatusQueryFailed(resp) ==
    \/ resp.kind = "error"
    \/ raise_for_status(resp)
    \/ ~resp.json
    \/ Val(resp.body).kind # "num"

\* C5: get_latest_block_height_rpc never raises; on every failure of the
\* status query it returns -1, and it returns another value only when a
\* height was parsed. (Violated: only RequestException is caught, so a height
\* field that int() rejects raises; a missing field returns 0.)
C5_ReaderNeverRaises ==
    [][ pc = "status_got" =>
          /\ pc' # "raised"
          /\ exception' = ""
          /\ StatusQueryFailed(Val(response)) => latest_block_height' = -1 ]_vars

\* The status queries answered so far all returned, and none a positive height.
NoPositiveHeight ==
    \A i \in DOMAIN rpc_log : rpc_log[i].exc = "" /\ rpc_log[i].value <= 0

\* C6: if no healthy RPC endpoint returned a strictly positive height, the
\* NetworkResult has latest_block_height -1 and rpc_server "". (Violated: the
\* loop stores every returned height, so a last 0 is reported.)
C6_NoHeightMeansUnknown ==
    (Returned /\ NoPositiveHeight) =>
        /\ Result.latest_block_height = -1
        /\ Result.rpc_server = ""

\* C7 as claimed: no request of any kind goes to a blacklisted address of the
\* REST list. (Violated: the liveness probe is sent before the blacklist is
\* looked at.)
C7_NoCallToBlacklisted ==
    /\ Blocked => call.address \notin SERVER_BLACKLIST
    /\ \A i \in Running : ProbedList[i].address \notin SERVER_BLACKLIST

\* C7, amended: no governance-proposal query and no current-plan query goes
\* to a blacklisted address.
C7_NoUpgradeQueryToBlacklisted ==
    /\ call.kind \in { "active_upgrade_proposals", "current_upgrade_plan" }
           => call.address \notin SERVER_BLACKLIST
    /\ \A i \in DOMAIN rest_log : rest_log[i].address \notin SERVER_BLACKLIST

\* The REST loop has passed a healthy blacklisted candidate and queried
\* another one.
C7_Witness ==
    /\ Returned
    /\ \E i \in DOMAIN healthy_rest_endpoints :
           healthy_rest_endpoints[i].address \in SERVER_BLACKLIST
    /\ rest_log # << >>

\* C8: fetch_data_for_network ends, whatever the servers do. (Violated: the
\* two upgrade queries are made without timeout, so a server that never
\* answers blocks the thread for ever.)
C8_ReconcilerEnds == <>(pc \in { "returned", "raised" })

\* The answer of the log entry is a usable upgrade for the NetworkResult.
Usable(e) ==
    /\ ~e.failed
    /\ Truthy(e.version)
    /\ ~IsNone(e.height)
    /\ Val(e.height) > Result.latest_block_height

\* The NetworkResult reports the answer of the log entry.
ReportedFrom(e) ==
    /\ Result.upgrade_found
    /\ Result.version = Val(e.version)
    /\ Result.upgrade_block_height = e.height
    /\ Result.source = e.query

\* Entry i + 1 is the current-plan answer of the candidate of entry i.
PlanAnswered(i) ==
    /\ i + 1 \in DOMAIN rest_log
    /\ rest_log[i + 1].query = "current_upgrade_plan"
    /\ rest_log[i + 1].index = rest_log[i].index
    /\ rest_log[i + 1].address = rest_log[i].address

\* C9 as claimed: a usable answer to the active-proposal query is always the
\* reported upgrade. (Violated: when the current-plan query of the same
\* candidate fails, the candidate counts as failed and its answer is dropped.)
C9_UsableActiveIsReported ==
    Returned =>
        \A i \in DOMAIN rest_log :
            (rest_log[i].query = "active_upgrade_proposals" /\ Usable(rest_log[i]))
                => ReportedFrom(rest_log[i])

\* C9, amended: a usable answer to the active-proposal query is the reported
\* upgrade whenever the current-plan query of the same candidate does not
\* fail.
C9_UsableActiveIsReportedUnlessPlanFails ==
    Returned =>
        \A i \in DOMAIN rest_log :
            ( /\ rest_log[i].query = "active_upgrade_proposals"
              /\ Usable(rest_log[i])
              /\ PlanAnswered(i)
              /\ ~rest_log[i + 1].failed )
                => ReportedFrom(rest_log[i])

\* Both answers of one candidate are usable, and the active one is reported.
C9_Witness ==
    /\ Returned
    /\ Result.latest_block_height >= 1
    /\ \E i \in DOMAIN rest_log :
           /\ rest_log[i].query = "active_upgrade_proposals"
           /\ Usable(rest_log[i])
           /\ PlanAnswered(i)
           /\ Usable(rest_log[i + 1])
           /\ ReportedFrom(rest_log[i])

\* C10: a 501 answer to the active-proposal query is "no upgrade", not a
\* failure: the current plan of the same candidate is asked for next, and a
\* usable answer to that query is the reported upgrade, with source
\* "current_upgrade_plan".
C10_NotImplementedIsNoUpgrade ==
    \A i \in DOMAIN rest_log :
        (rest_log[i].query = "active_upgrade_proposals" /\ rest_log[i].not_implemented)
            => /\ ~rest_log[i].failed
               /\ IsNone(rest_log[i].version)
               /\ IF i = Len(rest_log)
                  THEN /\ pc \in { "plan_wait", "plan_got" }
                       /\ index = rest_log[i].index
                       /\ pc = "plan_wait" =>
                              call = Get("current_upgrade_plan",
                                         rest_log[i].address, None)
                  ELSE PlanAnswered(i)
               /\ (Returned /\ PlanAnswered(i) /\ Usable(rest_log[i + 1]))
                      => /\ ReportedFrom(rest_log[i + 1])
                         /\ Result.source = "current_upgrade_plan"

\* A 501 was followed by a usable current plan, which is reported.
C10_Witness ==
    /\ Returned
    /\ Result.latest_block_height >= 1
    /\ \E i \in DOMAIN rest_log :
           /\ rest_log[i].not_implemented
           /\ PlanAnswered(i)
           /\ Usable(rest_log[i + 1])
           /\ Result.source = "current_upgrade_plan"
           /\ Result.version = << "3", ".", "2" >>

\* fetch_data_for_network is over: it has returned or raised.
Ended == pc \in { "returned", "raised" }

\* Every height read so far returned -1.
AllHeightReadsFailed ==
    \A i \in DOMAIN rpc_log : rpc_log[i].exc = "" /\ rpc_log[i].value = -1

\* Every REST candidate queried so far failed on one of its two queries.
AllCandidatesFailed ==
    \A i \in DOMAIN rest_log :
        \/ rest_log[i].failed
        \/ /\ rest_log[i].query = "active_upgrade_proposals"
           /\ PlanAnswered(i)
           /\ rest_log[i + 1].failed

\* C11: if every height read returned -1 (or none was made) and every REST
\* candidate queried failed on an upgrade query (or none was queried), the
\* Reconciler does not raise, and its NetworkResult has latest_block_height
\* -1, upgrade_found false, upgrade_block_height unset, version "",
\* rpc_server "" and source "".
C11_AllFailedIsUnknown ==
    (Ended /\ AllHeightReadsFailed /\ AllCandidatesFailed) =>
        /\ Returned
        /\ Result.latest_block_height = -1
        /\ ~Result.upgrade_found
        /\ IsNone(Result.upgrade_block_height)
        /\ Result.version = << >>
        /\ Result.rpc_server = ""
        /\ Result.source = ""

\* Two height reads returned -1, and a candidate failed on its current-plan
\* query after its active-proposal query had answered.
C11_Witness ==
    /\ Returned
    /\ Len(rpc_log) = 2
    /\ AllHeightReadsFailed
    /\ Len(rest_log) = 2
    /\ AllCandidatesFailed
    /\ ~rest_log[1].failed

\* The requested networks in processing order: the mainnets in request
\* order, then the testnets in request order.
RequestedOf(key, type) ==
    [i \in 1..Len(GetList(request_data, key)) |->
        [type |-> type, network |-> GetList(request_data, key)[i]]]
Requested ==
    RequestedOf("MAINNETS", "mainnet") \o RequestedOf("TESTNETS", "testnet")

Upgrading(x) == x.upgrade_found
NotUpgrading(x) == ~x.upgrade_found
NotRaised(h) == ~h.raised

\* C12: the response list is the stable partition of the collected results:
\* the records with upgrade_found, in processing order, then the records
\* without, in processing order; the collected results are those of the
\* requested networks that did not raise, mainnets first, in request order.
C12_StablePartition ==
    (Answered /\ Val(http_response).status = 200) =>
        /\ Body = SelectSeq(results, Upgrading) \o SelectSeq(results, NotUpgrading)
        /\ \A i \in DOMAIN processed :
               /\ processed[i].type = Requested[i].type
               /\ processed[i].network = Requested[i].network
        /\ LET collected == SelectSeq(processed, NotRaised) IN
           /\ Len(results) = Len(collected)
           /\ \A i \in DOMAIN results :
                  /\ results[i].type = collected[i].type
                  /\ results[i].network = collected[i].network

\* Three results, the one with an upgrade between two differing ones without.
C12_Witness ==
    /\ Answered
    /\ Val(http_response).status = 200
    /\ Len(results) = 3
    /\ ~results[1].upgrade_found
    /\ results[2].upgrade_found
    /\ ~results[3].upgrade_found
    /\ results[1] # results[3]
    /\ Body = << results[2], results[1], results[3] >>

UpgradeQueries == { "active_upgrade_proposals", "current_upgrade_plan" }

\* A result has been accepted: nothing is asked any more.
NoQueryAfterAcceptance ==
    source # "" => (call.kind \notin UpgradeQueries /\ pc \notin
                       { "rest_loop", "active_wait", "active_got",
                         "plan_wait", "plan_got" })

\* C13 as claimed: no address gets two status queries, two
\* governance-proposal queries or two current-plan queries in one run, and
\* no upgrade query follows an acceptance. (Violated: an address that the
\* list holds twice is queried once per entry.)
C13_OncePerAddress ==
    /\ \A i, j \in DOMAIN rpc_log :
           i < j => rpc_log[i].address # rpc_log[j].address
    /\ \A i, j \in DOMAIN rest_log :
           (i < j /\ rest_log[i].query = rest_log[j].query)
               => rest_log[i].address # rest_log[j].address
    /\ NoQueryAfterAcceptance

\* C13, amended: every entry of the healthy lists gets at most one status
\* query, one governance-proposal query and one current-plan query, in list
\* order, and no upgrade query follows an acceptance.
C13_OncePerEntry ==
    /\ Len(rpc_log) <= Len(healthy_rpc_endpoints)
    /\ \A k \in DOMAIN rpc_log :
           rpc_log[k].address = healthy_rpc_endpoints[k].address
    /\ call.kind = "status" =>
           /\ rpc_i = Len(rpc_log) + 1
           /\ call.address = healthy_rpc_endpoints[rpc_i].address
    /\ \A i \in DOMAIN rest_log :
           /\ rest_log[i].index \in DOMAIN healthy_rest_endpoints
           /\ rest_log[i].address =
                  healthy_rest_endpoints[rest_log[i].index].address
    /\ \A i, j \in DOMAIN rest_log :
           (i < j /\ rest_log[i].query = rest_log[j].query)
               => rest_log[i].index < rest_log[j].index
    /\ call.kind \in UpgradeQueries =>
           /\ call.address = healthy_rest_endpoints[index].address
           /\ \A i \in DOMAIN rest_log :
                  rest_log[i].query = call.kind => rest_log[i].index < index
    /\ NoQueryAfterAcceptance

\* Two entries of one address were each asked both upgrade queries, and the
\* second was accepted.
C13_Witness ==
    /\ Returned
    /\ Len(rpc_log) = 2
    /\ Len(rest_log) = 4
    /\ rest_log[1].address = rest_log[3].address
    /\ rest_log[1].index = 1
    /\ rest_log[3].index = 2
    /\ Result.upgrade_found

\* Entries i and i + 1 are the two answers of one candidate, neither a
\* failure, and one of them is a usable upgrade.
CandidateUsable(i) ==
    /\ rest_log[i].query = "active_upgrade_proposals"
    /\ PlanAnswered(i)
    /\ ~rest_log[i].failed
    /\ ~rest_log[i + 1].failed
    /\ Usable(rest_log[i]) \/ Usable(rest_log[i + 1])

\* Entry k of the healthy REST list has been queried.
Queried(k) ==
    \E i \in DOMAIN rest_log :
        rest_log[i].index = k /\ rest_log[i].query = "active_upgrade_proposals"

\* C14: a failed upgrade query is never raised out of the Reconciler and the
\* walk goes on with the next candidate: a candidate whose two queries both
\* answer without failure with a usable upgrade makes upgrade_found true,
\* and a NetworkResult without upgrade is returned only when every
\* candidate that is not blacklisted has been queried.
C14_FailureMovesToNextCandidate ==
    /\ pc = "raised" =>
           /\ rest_log = << >>
           /\ rpc_log # << >>
           /\ exception = rpc_log[Len(rpc_log)].exc
    /\ Returned =>
           \A i \in DOMAIN rest_log : CandidateUsable(i) => Result.upgrade_found
    /\ (Returned /\ ~Result.upgrade_found) =>
           \A k \in DOMAIN healthy_rest_endpoints :
               ~Blacklisted(healthy_rest_endpoints[k].address) => Queried(k)

\* The first candidate failed, the second was queried and accepted.
C14_Witness ==
    /\ Returned
    /\ Len(rest_log) >= 3
    /\ rest_log[1].failed
    /\ rest_log[1].index = 1
    /\ CandidateUsable(Len(rest_log) - 1)
    /\ rest_log[Len(rest_log)].index = 2
    /\ Result.upgrade_found

\* Entries i and i + 1 are the two answers of one candidate, neither a failure.
BothAnswered(i) ==
    /\ rest_log[i].query = "active_upgrade_proposals"
    /\ PlanAnswered(i)
    /\ ~rest_log[i].failed
    /\ ~rest_log[i + 1].failed

\* The acceptance condition, on a logged answer.
Acceptable(e) ==
    /\ e.version # None
    /\ Val(e.version) # << >>
    /\ e.height # None
    /\ Val(e.height) > latest_block_height

\* The Reconciler has accepted the logged answer.
Accepted(e) ==
    /\ source = e.query
    /\ upgrade_version = Val(e.version)
    /\ upgrade_block_height = e.height

\* C15: for a candidate whose two queries both answered without failure, the
\* active-proposal result is accepted iff it meets the condition (version
\* non-empty, height known and above latest_block_height); the current-plan
\* result is accepted iff the active one is not and it meets the condition;
\* if neither does, nothing is accepted and the walk goes on with the next
\* candidate. An acceptance ends the walk.
C15_ActiveThenCurrent ==
    \A i \in DOMAIN rest_log :
        BothAnswered(i) =>
            IF Acceptable(rest_log[i])
            THEN Accepted(rest_log[i]) /\ Len(rest_log) = i + 1
            ELSE IF Acceptable(rest_log[i + 1])
            THEN Accepted(rest_log[i + 1]) /\ Len(rest_log) = i + 1
            ELSE /\ index > rest_log[i].index
                 /\ Len(rest_log) = i + 1 => source = ""

\* Both results of one candidate meet the condition; the active one is taken.
C15_Witness ==
    /\ pc = "output"
    /\ latest_block_height = 1
    /\ \E i \in DOMAIN rest_log :
           /\ BothAnswered(i)
           /\ Acceptable(rest_log[i])
           /\ Acceptable(rest_log[i + 1])
           /\ rest_log[i].version # rest_log[i + 1].version
           /\ Accepted(rest_log[i])

\* The answer just read, and the entry the reader's return adds to the log.
Answered200 == Val(response).json
Document == Val(Val(response).body)
NewEntry == rest_log'[Len(rest_log')]

\* int() does not parse the field: a text that is no integer, or null.
Unparsable(field) == field.kind \in { "text", "null" }
HasVersion(text) == search(text) # None

\* C16: a plan height that int() cannot parse never makes an upgrade reader
\* raise: the reader returns, and where it extracted a version it returns it
\* with height 0. (Violated: only ValueError is caught, so a null height, for
\* which int() raises TypeError, makes the reader raise.)
C16_MalformedHeightIsZero ==
    [][ /\ ( /\ pc = "active_got"
             /\ Answered200
             /\ Len(Document) = 1
             /\ Document[1].upgrade
             /\ Unparsable(Document[1].height) )
           => /\ ~NewEntry.failed
              /\ (HasVersion(Document[1].name) \/ HasVersion(Document[1].description))
                     => (NewEntry.version # None /\ NewEntry.height = Some(0))
        /\ ( /\ pc = "plan_got"
             /\ Answered200
             /\ Document # None
             /\ Unparsable(Val(Document).height) )
           => /\ ~NewEntry.failed
              /\ HasVersion(Val(Document).name)
                     => (NewEntry.version # None /\ NewEntry.height = Some(0))
      ]_vars

LongerLength(a, b) == IF Len(a) > Len(b) THEN Len(a) ELSE Len(b)

\* C17: the version the active-proposal reader takes from an upgrade
\* proposal: with a version in the plan name and one in the description, one
\* of the two, of the greater length (the strictly longer one when the
\* lengths differ); with a version in one field only, that one; with none,
\* no version.
C17_LongerVersionWins ==
    [][ ( /\ pc = "active_got"
          /\ Answered200
          /\ Len(Document) = 1
          /\ Document[1].upgrade
          /\ Document[1].height.kind = "num" )
        => LET plan_match == search(Document[1].name)
               description_match == search(Document[1].description)
               version == NewEntry.version
           IN  /\ ~NewEntry.failed
               /\ (plan_match # None /\ description_match # None) =>
                      /\ version \in { plan_match, description_match }
                      /\ Len(Val(version)) =
                             LongerLength(Val(plan_match), Val(description_match))
               /\ (plan_match # None /\ description_match = None) =>
                      version = plan_match
               /\ (plan_match = None /\ description_match # None) =>
                      version = description_match
               /\ (plan_match = None /\ description_match = None) =>
                      version = None
      ]_vars

\* The reader has returned version "2.1.0", found in "up-v2.1.0-h".
C17_Witness ==
    /\ pc = "plan_wait"
    /\ Len(rest_log) = 1
    /\ ~rest_log[1].failed
    /\ rest_log[1].version = Some(<< "2", ".", "1", ".", "0" >>)
    /\ rest_log[1].height = Some(MaxHeight)

\* The positions of the input whose probe got status 200.
Got200 ==
    { i \in DOMAIN probes :
        /\ probes[i].state = "done"
        /\ Val(probes[i].response).kind = "http"
        /\ Val(probes[i].response).status = 200 }

\* The k-th position of Got200, in input order.
NthGot200(k) ==
    CHOOSE i \in Got200 : Cardinality({ j \in Got200 : j < i }) = k - 1

\* C18: whatever the order in which the probes start and complete, the
\* prober returns the first five endpoints, in input order, whose probe got
\* status 200, or all of them when they are fewer than five.
C18_FirstFiveInInputOrder ==
    [][ ProberReturns =>
          /\ Len(ProberOutput) =
                 (IF Cardinality(Got200) < 5 THEN Cardinality(Got200) ELSE 5)
          /\ \A k \in DOMAIN ProberOutput :
                 ProberOutput[k] = ProbedList[NthGot200(k)] ]_vars

\* Of seven endpoints the first was unhealthy and the next five are returned.
C18_Witness ==
    /\ pc = "probe_rest"
    /\ Len(rpc_endpoints) = 7
    /\ healthy_rpc_endpoints = SubSeq(rpc_endpoints, 2, 6)

\* C19: rpc_server is non-empty exactly when latest_block_height is strictly
\* positive; it is then the address of a healthy RPC endpoint whose status
\* query returned the reported height, and that query was the last one: no
\* status query follows the first strictly positive height.
C19_RpcServerIffHeight ==
    /\ \A i \in DOMAIN rpc_log :
           (rpc_log[i].exc = "" /\ rpc_log[i].value > 0)
               => /\ i = Len(rpc_log)
                  /\ call.kind # "status"
                  /\ rpc_server_used = rpc_log[i].address
                  /\ latest_block_height = rpc_log[i].value
    /\ Returned =>
           /\ Result.rpc_server # "" <=> Result.latest_block_height > 0
           /\ Result.rpc_server # "" =>
                  /\ \E k \in DOMAIN healthy_rpc_endpoints :
                         healthy_rpc_endpoints[k].address = Result.rpc_server
                  /\ rpc_log[Len(rpc_log)].address = Result.rpc_server
                  /\ rpc_log[Len(rpc_log)].value = Result.latest_block_height

\* The second healthy RPC endpoint gave the height, after a first that gave 0.
C19_Witness ==
    /\ Returned
    /\ Len(rpc_log) = 2
    /\ rpc_log[1].value = 0
    /\ rpc_log[1].address # rpc_log[2].address
    /\ Result.rpc_server = rpc_log[2].address
    /\ Result.latest_block_height = MaxHeight

\* C20: the upgrade fields of a NetworkResult agree: without upgrade, source
\* is "" and upgrade_block_height unset, and only then; with an upgrade,
\* source names one of the two queries, and version and height are together
\* the answer of that query on one REST candidate, the last one asked.
C20_UpgradeFieldsAgree ==
    Returned =>
        /\ ~Result.upgrade_found <=> Result.source = ""
        /\ ~Result.upgrade_found <=> IsNone(Result.upgrade_block_height)
        /\ Result.upgrade_found =>
               /\ Result.source \in UpgradeQueries
               /\ \E i \in DOMAIN rest_log :
                      /\ rest_log[i].query = Result.source
                      /\ rest_log[i].index = rest_log[Len(rest_log)].index
                      /\ ~rest_log[i].failed
                      /\ rest_log[i].version = Some(Result.version)
                      /\ rest_log[i].height = Result.upgrade_block_height

\* The current plan was reported while the active proposal of the same
\* candidate named another version at another height.
C20_Witness ==
    /\ Returned
    /\ Result.source = "current_upgrade_plan"
    /\ Len(rest_log) >= 2
    /\ rest_log[Len(rest_log) - 1].version # None
    /\ rest_log[Len(rest_log) - 1].height # rest_log[Len(rest_log)].height
    /\ rest_log[Len(rest_log)].height = Result.upgrade_block_height

====
